---- MODULE Spec2Model ----
(***************************************************************************)
(* Verification model of the tailwindcss-sorter extension.                 *)
(*                                                                         *)
(* Part I  (Spec):     TailwindSorterService (oracle cache, single-flight  *)
(*                     initialisation) driven by the edit handlers of      *)
(*                     extension.ts, on the JavaScript event loop.         *)
(* Part II (SpecSort, SpecLayout): the pure token normaliser of            *)
(*                     tailwind/sorting.ts.                                *)
(* Part III (SpecBalanced, SpecMatch, SpecRules, SpecScan): the span       *)
(*                     extractor of matcher.ts.                            *)
(***************************************************************************)
EXTENDS Integers, Sequences, FiniteSets, TLC

VARIABLES
  \* ---- TailwindSorterService fields (types.ts 113-115)
  context,            \* 0 = null, else the id of the build whose oracle is installed
  currentConfigHash,  \* 0 = '', else a fingerprint
  initPromise,        \* 0 = null, else the id of the doInitialize promise it refers to
  \* ---- doInitialize invocations (one promise each)
  buildState,         \* build id -> "unused" | "pending" | "fulfilled" | "rejected"
  buildHash,          \* build id -> configHash argument of that doInitialize call
  reactions,          \* build id -> callers awaiting the promise, in registration order
  settled,            \* build ids in the order in which they settled
  \* ---- event loop
  microtasks,         \* FIFO queue of callers whose continuation is ready to run
  running,            \* caller executing synchronously right now, or NoCaller
  \* ---- one edit handler (getEditsForMatches) per caller
  pc,                 \* "idle" | "call" | "awaitPending" | "awaitOwn" | "afterInit" | "next" | "report"
  callHash,           \* fingerprint of the config the handler was started with
  awaiting,           \* build the caller's initialize() is suspended on
  spansLeft,          \* matches still to be processed by the handler's loop
  edits,              \* number of edits pushed so far
  failures,           \* number of sortClasses rejections caught so far
  docOutcome,         \* what the command reported: "none" | "sorted" | "alreadySorted" | "error"
  \* ---- record of the caller's latest sortClasses call
  lastOutcome,        \* "none" | "ok" | "error"
  lastCtx,            \* oracle (build id) the returned result was computed with
  awaited,            \* builds that call awaited
  \* ---- Part II: one application of sortClasses
  classStr, order, opts, sortPc, sorted, listResult,
  \* ---- Part III: one application of extractBalancedContent or findClassMatches
  text,               \* the document text, a sequence of characters
  openParenIndex,     \* argument of extractBalancedContent
  patterns,           \* languageConfig.patterns
  functionNames,      \* config.classFunctions
  matchPc,            \* "off" | "ready" | "done"
  balanced,           \* what extractBalancedContent returned
  found,              \* what findClassFunctionMatches and findClassMatches returned
  \* ---- Part III: findClassMatches one loop turn at a time
  ruleIndex,          \* position in languageConfig.patterns of the rule being scanned
  regexLastIndex,     \* regex.lastIndex of that rule's regex
  scanMatches,        \* the matches array so far
  iterations          \* turns of the while loop of that rule so far

svcVars == <<context, currentConfigHash, initPromise, buildState, buildHash,
             reactions, settled, microtasks, running, pc, callHash, awaiting,
             spansLeft, edits, failures, docOutcome, lastOutcome, lastCtx, awaited>>
sortVars == <<classStr, order, opts, sortPc, sorted, listResult>>
scanVars == <<ruleIndex, regexLastIndex, scanMatches, iterations>>
matchVars == <<text, openParenIndex, patterns, functionNames, matchPc, balanced, found,
               scanVars>>
vars == <<svcVars, sortVars, matchVars>>

ScanIdle == ruleIndex = 0 /\ regexLastIndex = 0 /\ scanMatches = <<>> /\ iterations = 0

MatchIdle ==
  /\ text = <<>> /\ openParenIndex = 0 /\ patterns = <<>> /\ functionNames = <<>>
  /\ matchPc = "off" /\ balanced = <<>> /\ found = <<>>
  /\ ScanIdle

(***************************************************************************)
(* Bounds                                                                  *)
(***************************************************************************)
MaxBuilds == 3
MaxSpans == 1

\* Three concurrent handlers; each may be started again after it has returned.
Callers == {"c1", "c2", "c3"}
NoCaller == "none"
Builds == 1..MaxBuilds
\* Two distinct values of computeConfigHash (types.ts 131-138); 0 stands for ''.
Hashes == {"h1", "h2"}

(***************************************************************************)
(* Part I: TailwindSorterService                                           *)
(***************************************************************************)
UnusedBuilds == {b \in Builds : buildState[b] = "unused"}

NextBuild == CHOOSE b \in UnusedBuilds : \A o \in UnusedBuilds : b <= o

\* types.ts 161: if (this.context && this.currentConfigHash === newHash) return;
ReuseCached(newHash) == context # 0 /\ currentConfigHash = newHash

RecheckAfterWait_NoCompare(newHash) == TRUE

\* types.ts 169: if (this.currentConfigHash === newHash) return;
RecheckAfterWait(newHash) == currentConfigHash = newHash

\* extension.ts 121-133: the message sortClassesInDocument shows for an edit list
\* that getSortEditsForDocument returned (the catch of 135-138 reports "error").
DocumentOutcome(editCount, thrown) ==
  IF thrown THEN "error"
  ELSE IF editCount = 0 THEN "alreadySorted" ELSE "sorted"

ServiceInit ==
  /\ context = 0
  /\ currentConfigHash = 0
  /\ initPromise = 0
  /\ buildState = [b \in Builds |-> "unused"]
  /\ buildHash = [b \in Builds |-> 0]
  /\ reactions = [b \in Builds |-> <<>>]
  /\ settled = <<>>
  /\ microtasks = <<>>
  /\ running = NoCaller
  /\ pc = [c \in Callers |-> "idle"]
  /\ callHash = [c \in Callers |-> 0]
  /\ awaiting = [c \in Callers |-> 0]
  /\ spansLeft = [c \in Callers |-> 0]
  /\ edits = [c \in Callers |-> 0]
  /\ failures = [c \in Callers |-> 0]
  /\ docOutcome = [c \in Callers |-> "none"]
  /\ lastOutcome = [c \in Callers |-> "none"]
  /\ lastCtx = [c \in Callers |-> 0]
  /\ awaited = [c \in Callers |-> {}]

\* A command or event handler starts on an empty event loop and runs
\* synchronously into getEditsForMatches (extension.ts 98-120, 196-222).
StartRequest(c, h, n) ==
  /\ running = NoCaller /\ microtasks = <<>> /\ pc[c] = "idle"
  /\ pc' = [pc EXCEPT ![c] = "call"]
  /\ running' = c
  /\ callHash' = [callHash EXCEPT ![c] = h]
  /\ spansLeft' = [spansLeft EXCEPT ![c] = n]
  /\ UNCHANGED <<context, currentConfigHash, initPromise, buildState, buildHash,
                 reactions, settled, microtasks, awaiting, edits, failures,
                 docOutcome, lastOutcome, lastCtx, awaited>>

\* types.ts 174-175 with the synchronous head of doInitialize (184-188):
\* a new promise is created, stored in initPromise and awaited by its creator.
StartBuild(c, queue) ==
  /\ UnusedBuilds # {}
  /\ LET b == NextBuild IN
     /\ buildState' = [buildState EXCEPT ![b] = "pending"]
     /\ buildHash' = [buildHash EXCEPT ![b] = callHash[c]]
     /\ initPromise' = b
     /\ reactions' = [reactions EXCEPT ![b] = Append(@, c)]
     /\ awaiting' = [awaiting EXCEPT ![c] = b]
     /\ awaited' = [awaited EXCEPT ![c] = @ \cup {b}]
     /\ pc' = [pc EXCEPT ![c] = "awaitOwn"]
     /\ microtasks' = queue
     /\ running' = NoCaller

\* sortClasses 210 -> initialize 156-175, up to its first suspension.
Initialize(c) ==
  /\ running = c /\ pc[c] = "call"
  /\ IF ReuseCached(callHash[c])
     THEN /\ pc' = [pc EXCEPT ![c] = "afterInit"]
          /\ microtasks' = Append(microtasks, c)
          /\ running' = NoCaller
          /\ UNCHANGED <<initPromise, buildState, buildHash, reactions, awaiting, awaited>>
     ELSE IF initPromise # 0
     THEN /\ pc' = [pc EXCEPT ![c] = "awaitPending"]
          /\ awaiting' = [awaiting EXCEPT ![c] = initPromise]
          /\ awaited' = [awaited EXCEPT ![c] = @ \cup {initPromise}]
          /\ IF buildState[initPromise] = "pending"
             THEN /\ reactions' = [reactions EXCEPT ![initPromise] = Append(@, c)]
                  /\ microtasks' = microtasks
             ELSE /\ reactions' = reactions
                  /\ microtasks' = Append(microtasks, c)
          /\ running' = NoCaller
          /\ UNCHANGED <<initPromise, buildState, buildHash>>
     ELSE StartBuild(c, microtasks)
  /\ UNCHANGED <<context, currentConfigHash, settled, callHash, spansLeft, edits,
                 failures, docOutcome, lastOutcome, lastCtx>>

\* createContext resolved: doInitialize 197-199 installs the oracle and the hash,
\* its promise is fulfilled and the continuations of its awaiters are queued.
BuildSucceed(b) ==
  /\ running = NoCaller /\ microtasks = <<>> /\ buildState[b] = "pending"
  /\ context' = b
  /\ currentConfigHash' = buildHash[b]
  /\ buildState' = [buildState EXCEPT ![b] = "fulfilled"]
  /\ microtasks' = reactions[b]
  /\ reactions' = [reactions EXCEPT ![b] = <<>>]
  /\ settled' = Append(settled, b)
  /\ UNCHANGED <<initPromise, buildHash, running, pc, callHash, awaiting, spansLeft,
                 edits, failures, docOutcome, lastOutcome, lastCtx, awaited>>

\* findEntryPoint or createContext threw: doInitialize 200-203 logs and rethrows.
BuildFail(b) ==
  /\ running = NoCaller /\ microtasks = <<>> /\ buildState[b] = "pending"
  /\ buildState' = [buildState EXCEPT ![b] = "rejected"]
  /\ microtasks' = reactions[b]
  /\ reactions' = [reactions EXCEPT ![b] = <<>>]
  /\ settled' = Append(settled, b)
  /\ UNCHANGED <<context, currentConfigHash, initPromise, buildHash, running, pc,
                 callHash, awaiting, spansLeft, edits, failures, docOutcome,
                 lastOutcome, lastCtx, awaited>>

\* The rejection leaves initialize and sortClasses and is caught by the
\* handler's loop (extension.ts 228-230).
Rejected(c) ==
  /\ lastOutcome' = [lastOutcome EXCEPT ![c] = "error"]
  /\ failures' = [failures EXCEPT ![c] = @ + 1]
  /\ pc' = [pc EXCEPT ![c] = "next"]
  /\ running' = c
  /\ microtasks' = Tail(microtasks)

\* types.ts 167-174: continuation of `await this.initPromise` of a caller that
\* found a promise in initPromise.
ResumeAfterPending(c) ==
  /\ running = NoCaller /\ microtasks # <<>> /\ Head(microtasks) = c
  /\ pc[c] = "awaitPending"
  /\ IF buildState[awaiting[c]] = "rejected"
     THEN /\ Rejected(c)
          /\ UNCHANGED <<initPromise, buildState, buildHash, reactions, awaiting, awaited>>
     ELSE IF RecheckAfterWait(callHash[c])
     THEN /\ pc' = [pc EXCEPT ![c] = "afterInit"]
          /\ microtasks' = Append(Tail(microtasks), c)
          /\ UNCHANGED <<initPromise, buildState, buildHash, reactions, awaiting,
                         awaited, running, lastOutcome, failures>>
     ELSE /\ StartBuild(c, Tail(microtasks))
          /\ UNCHANGED <<lastOutcome, failures>>
  /\ UNCHANGED <<context, currentConfigHash, settled, callHash, spansLeft, edits,
                 docOutcome, lastCtx>>

\* types.ts 175-176: continuation of the caller that started the build.
ResumeAfterOwn(c) ==
  /\ running = NoCaller /\ microtasks # <<>> /\ Head(microtasks) = c
  /\ pc[c] = "awaitOwn"
  /\ IF buildState[awaiting[c]] = "rejected"
     THEN /\ Rejected(c)
          /\ UNCHANGED initPromise
     ELSE /\ initPromise' = 0
          /\ pc' = [pc EXCEPT ![c] = "afterInit"]
          /\ microtasks' = Append(Tail(microtasks), c)
          /\ UNCHANGED <<running, lastOutcome, failures>>
  /\ UNCHANGED <<context, currentConfigHash, buildState, buildHash, reactions,
                 settled, callHash, awaiting, spansLeft, edits, docOutcome, lastCtx,
                 awaited>>

\* types.ts 212-232 and extension.ts 224-227: initialize() returned; the oracle
\* in this.context computes the result, an edit is pushed when it changed.
ResumeSort(c) ==
  /\ running = NoCaller /\ microtasks # <<>> /\ Head(microtasks) = c
  /\ pc[c] = "afterInit"
  /\ IF context = 0
     THEN /\ Rejected(c)
          /\ UNCHANGED <<lastCtx, edits>>
     ELSE /\ lastOutcome' = [lastOutcome EXCEPT ![c] = "ok"]
          /\ lastCtx' = [lastCtx EXCEPT ![c] = context]
          /\ \E changed \in BOOLEAN :
               edits' = [edits EXCEPT ![c] = IF changed THEN @ + 1 ELSE @]
          /\ pc' = [pc EXCEPT ![c] = "next"]
          /\ running' = c
          /\ microtasks' = Tail(microtasks)
          /\ UNCHANGED failures
  /\ UNCHANGED <<context, currentConfigHash, initPromise, buildState, buildHash,
                 reactions, settled, callHash, awaiting, spansLeft, docOutcome, awaited>>

\* extension.ts 222, 233 and 121-133: next match of the loop, or the edit list is
\* returned and the command reports.
NextSpan(c) ==
  /\ running = c /\ pc[c] = "next"
  /\ spansLeft' = [spansLeft EXCEPT ![c] = @ - 1]
  /\ IF spansLeft[c] > 1
     THEN /\ pc' = [pc EXCEPT ![c] = "call"]
          /\ lastOutcome' = [lastOutcome EXCEPT ![c] = "none"]
          /\ lastCtx' = [lastCtx EXCEPT ![c] = 0]
          /\ awaited' = [awaited EXCEPT ![c] = {}]
          /\ UNCHANGED docOutcome
     ELSE /\ pc' = [pc EXCEPT ![c] = "report"]
          /\ docOutcome' = [docOutcome EXCEPT ![c] = DocumentOutcome(edits[c], FALSE)]
          /\ UNCHANGED <<lastOutcome, lastCtx, awaited>>
  /\ UNCHANGED <<context, currentConfigHash, initPromise, buildState, buildHash,
                 reactions, settled, microtasks, running, callHash, awaiting, edits,
                 failures>>

\* The handler has returned; its locals are gone.
Return(c) ==
  /\ running = c /\ pc[c] = "report"
  /\ pc' = [pc EXCEPT ![c] = "idle"]
  /\ running' = NoCaller
  /\ callHash' = [callHash EXCEPT ![c] = 0]
  /\ awaiting' = [awaiting EXCEPT ![c] = 0]
  /\ edits' = [edits EXCEPT ![c] = 0]
  /\ failures' = [failures EXCEPT ![c] = 0]
  /\ docOutcome' = [docOutcome EXCEPT ![c] = "none"]
  /\ lastOutcome' = [lastOutcome EXCEPT ![c] = "none"]
  /\ lastCtx' = [lastCtx EXCEPT ![c] = 0]
  /\ awaited' = [awaited EXCEPT ![c] = {}]
  /\ UNCHANGED <<context, currentConfigHash, initPromise, buildState, buildHash,
                 reactions, settled, microtasks, spansLeft>>

\* types.ts 246-249
Dispose ==
  /\ running = NoCaller /\ microtasks = <<>>
  /\ context # 0
  /\ context' = 0
  /\ currentConfigHash' = 0
  /\ UNCHANGED <<initPromise, buildState, buildHash, reactions, settled, microtasks,
                 running, pc, callHash, awaiting, spansLeft, edits, failures,
                 docOutcome, lastOutcome, lastCtx, awaited>>

(***************************************************************************)
(* Part II: tailwind/sorting.ts                                            *)
(*                                                                         *)
(* A class string is a sequence of glyphs.  A glyph is one character, except*)
(* that the three dots "..." are written as one glyph; "U+2026" is the    *)
(* one-character ellipsis.  A token is a sequence of glyphs, the empty     *)
(* sequence is the empty string ''.                                        *)
(***************************************************************************)
\* The separator class [\t\r\f\n ] of sorting.ts 126 and 131.
SplitWhitespace == {" ", "TAB", "CR", "FF", "LF"}

\* What \s matches in the replace calls of sorting.ts 168-173: the separators and
\* further characters such as the vertical tab and the no-break space.
RegexSpace == SplitWhitespace \cup {"VT", "NBSP"}

Ellipsis == <<"U+2026">>
Dots == <<"...">>
Spreads == {Dots, Ellipsis}

\* A rank is <<>> (null) or <<n>> (the bigint n).
Null == <<>>
Known(n) == <<n>>

\* The element of a one-element set.  Only({e : x \in {v}}) is e with x standing
\* for v, and v is evaluated once, like a `const` of the code.
Only(S) == CHOOSE x \in S : TRUE

\* TailwindContext.getClassOrder (tailwind/types.ts 5-7) for the oracle `ord`, a
\* table of the ranks of the classes it knows.
getClassOrder(ord, classList) ==
  [i \in 1..Len(classList) |->
     <<classList[i], IF classList[i] \in DOMAIN ord THEN ord[classList[i]] ELSE Null>>]

\* sorting.ts 6-8
bigSign(bigIntValue) ==
  (IF bigIntValue > 0 THEN 1 ELSE 0) - (IF bigIntValue < 0 THEN 1 ELSE 0)

CompareClasses_NoSpread(A, Z) ==
  IF A[2] = Z[2] THEN 0
  ELSE IF A[2] = Null THEN -1
  ELSE IF Z[2] = Null THEN 1
  ELSE bigSign(A[2][1] - Z[2][1])

CompareClasses_NoEqualCheck(A, Z) ==
  IF A[1] \in Spreads THEN 1
  ELSE IF Z[1] \in Spreads THEN -1
  ELSE IF A[2] = Null THEN -1
  ELSE IF Z[2] = Null THEN 1
  ELSE bigSign(A[2][1] - Z[2][1])

\* sorting.ts 28-47: the comparator given to sort; A and Z are <<name, order>>.
CompareClasses(A, Z) ==
  IF A[1] \in Spreads THEN 1
  ELSE IF Z[1] \in Spreads THEN -1
  ELSE IF A[2] = Z[2] THEN 0
  ELSE IF A[2] = Null THEN -1
  ELSE IF Z[2] = Null THEN 1
  ELSE bigSign(A[2][1] - Z[2][1])

Reverse(list) == [i \in 1..Len(list) |-> list[Len(list) + 1 - i]]

\* Array.prototype.sort as the extension host (V8) runs it on an array of fewer
\* than 64 elements: the initial run is detected (a strictly descending one is
\* reversed), then each further element is placed by binary insertion.  The
\* comparator is always called as comparefn(later element, earlier element).
RECURSIVE RunEnd(_, _, _)
RunEnd(list, i, descending) ==
  IF i > Len(list) THEN Len(list)
  ELSE LET ord == CompareClasses(list[i], list[i - 1]) IN
       IF descending
       THEN IF ord >= 0 THEN i - 1 ELSE RunEnd(list, i + 1, descending)
       ELSE IF ord < 0 THEN i - 1 ELSE RunEnd(list, i + 1, descending)

RECURSIVE InsertionPoint(_, _, _, _)
InsertionPoint(list, pivot, left, right) ==
  IF left >= right THEN left
  ELSE Only({IF CompareClasses(pivot, list[mid + 1]) < 0
             THEN InsertionPoint(list, pivot, left, mid)
             ELSE InsertionPoint(list, pivot, mid + 1, right)
               : mid \in {left + ((right - left) \div 2)}})

\* list with its element at `start` moved to stand after the first `at` elements.
Placed(list, start, at) ==
  SubSeq(list, 1, at) \o <<list[start]>> \o SubSeq(list, at + 1, start - 1)
    \o SubSeq(list, start + 1, Len(list))

RECURSIVE BinaryInsertion(_, _)
BinaryInsertion(list, start) ==
  IF start > Len(list) THEN list
  ELSE Only({BinaryInsertion(placed, start + 1)
               : placed \in {Only({Placed(list, start, at)
                               : at \in {InsertionPoint(list, list[start], 0, start - 1)}})}})

\* list with its initial run of runLength elements made ascending.
RunFirst(list, descending, runLength) ==
  (IF descending THEN Reverse(SubSeq(list, 1, runLength)) ELSE SubSeq(list, 1, runLength))
    \o SubSeq(list, runLength + 1, Len(list))

ArraySort(list) ==
  IF Len(list) < 2 THEN list
  ELSE Only({Only({Only({BinaryInsertion(runFirst, runLength + 1)
                           : runFirst \in {RunFirst(list, descending, runLength)}})
                     : runLength \in {RunEnd(list, 3, descending)}})
               : descending \in {CompareClasses(list[2], list[1]) < 0}})

\* sorting.ts 13-48
reorderClasses(classList, ord) ==
  Only({ArraySort(orderedClasses) : orderedClasses \in {getClassOrder(ord, classList)}})

\* sorting.ts 73-76: only a class with a known order enters seenClasses.
SeenAfter(ordered, seen, i) ==
  IF ordered[i][2] # Null THEN seen \cup {ordered[i][1]} ELSE seen

\* sorting.ts 64-80: the filter over the ordered classes; yields the kept pairs
\* and the (1-based) indices of the removed ones.
RECURSIVE FilterDuplicates(_, _, _, _, _)
FilterDuplicates(ordered, i, seen, kept, removed) ==
  IF i > Len(ordered) THEN [kept |-> kept, removed |-> removed]
  ELSE IF ordered[i][1] \in seen
       THEN FilterDuplicates(ordered, i + 1, seen, kept, removed \cup {i})
       ELSE FilterDuplicates(ordered, i + 1, SeenAfter(ordered, seen, i),
                             Append(kept, ordered[i]), removed)

\* sorting.ts 53-86; removedIndices holds positions of the ordered list, 1-based
\* here (0-based in the code).
sortClassList(classList, ord, removeDuplicates) ==
  Only({Only({[classList |-> [i \in 1..Len(f.kept) |-> f.kept[i][1]],
               removedIndices |-> f.removed]
                : f \in {IF removeDuplicates
                         THEN FilterDuplicates(ordered, 1, {}, <<>>, {})
                         ELSE [kept |-> ordered, removed |-> {}]}})
          : ordered \in {reorderClasses(classList, ord)}})

\* classStr.split(/([\t\r\f\n ]+)/) of sorting.ts 131: the alternating parts, the
\* first and the last of which are tokens (possibly empty).
RECURSIVE SplitParts(_, _, _, _)
SplitParts(str, i, parts, inWs) ==
  IF i > Len(str)
  THEN IF inWs THEN Append(parts, <<>>) ELSE parts
  ELSE IF (str[i] \in SplitWhitespace) = inWs
       THEN Only({SplitParts(str, i + 1, longer, inWs)
                    : longer \in {[parts EXCEPT ![Len(parts)] = Append(@, str[i])]}})
       ELSE Only({SplitParts(str, i + 1, more, ~inWs)
                    : more \in {Append(parts, <<str[i]>>)}})

Split(str) == SplitParts(str, 1, << <<>> >>, FALSE)

EvenParts(parts) == [i \in 1..((Len(parts) + 1) \div 2) |-> parts[2 * i - 1]]
OddParts(parts) == [i \in 1..(Len(parts) \div 2) |-> parts[2 * i]]

RECURSIVE Join(_)
Join(seqs) == IF seqs = <<>> THEN <<>> ELSE Head(seqs) \o Join(Tail(seqs))

\* The length of the match of /^\s+/ in str, 0 when there is none.
LeadingSpace(str) ==
  IF \A i \in 1..Len(str) : str[i] \in RegexSpace THEN Len(str)
  ELSE (CHOOSE i \in 1..Len(str) :
          str[i] \notin RegexSpace /\ \A j \in 1..(i - 1) : str[j] \in RegexSpace) - 1

\* str.replace(/^\s+/, rep)
ReplaceLeadingSpace(str, rep) ==
  IF LeadingSpace(str) = 0 THEN str
  ELSE rep \o SubSeq(str, LeadingSpace(str) + 1, Len(str))

\* str.replace(/\s+$/, rep)
ReplaceTrailingSpace(str, rep) ==
  Only({Reverse(replaced)
          : replaced \in {Only({ReplaceLeadingSpace(backwards, Reverse(rep))
                                  : backwards \in {Reverse(str)}})}})

\* sorting.ts 121-123: false, or the {start, end} object.
ShouldCollapse(collapseWhitespace) ==
  IF collapseWhitespace.kind = "true" THEN [kind |-> "object", start |-> TRUE, end |-> TRUE]
  ELSE collapseWhitespace

\* sorting.ts 130-141: classes and whitespace after the split, the pop of a
\* trailing '' and the collapse of the runs.
Tokenize(classStr0, collapsing) ==
  Only({[classes |-> IF EvenParts(parts)[Len(EvenParts(parts))] = <<>>
                     THEN SubSeq(EvenParts(parts), 1, Len(EvenParts(parts)) - 1)
                     ELSE EvenParts(parts),
         whitespace |-> IF collapsing
                        THEN [i \in 1..Len(OddParts(parts)) |-> <<" ">>]
                        ELSE OddParts(parts)]
          : parts \in {Split(classStr0)}})

\* sorting.ts 143-146: prefix = (classes.shift() ?? '') + (whitespace.shift() ?? '')
IgnoreFirst(t, ignoreFirst) ==
  IF ignoreFirst
  THEN [prefix |-> (IF t.classes = <<>> THEN <<>> ELSE Head(t.classes))
                     \o (IF t.whitespace = <<>> THEN <<>> ELSE Head(t.whitespace)),
        classes |-> IF t.classes = <<>> THEN <<>> ELSE Tail(t.classes),
        whitespace |-> IF t.whitespace = <<>> THEN <<>> ELSE Tail(t.whitespace)]
  ELSE [prefix |-> <<>>, classes |-> t.classes, whitespace |-> t.whitespace]

\* sorting.ts 148-151: suffix = (whitespace.pop() ?? '') + (classes.pop() ?? '')
IgnoreLast(t, ignoreLast) ==
  IF ignoreLast
  THEN [prefix |-> t.prefix,
        suffix |-> (IF t.whitespace = <<>> THEN <<>> ELSE t.whitespace[Len(t.whitespace)])
                     \o (IF t.classes = <<>> THEN <<>> ELSE t.classes[Len(t.classes)]),
        classes |-> IF t.classes = <<>> THEN <<>>
                    ELSE SubSeq(t.classes, 1, Len(t.classes) - 1),
        whitespace |-> IF t.whitespace = <<>> THEN <<>>
                       ELSE SubSeq(t.whitespace, 1, Len(t.whitespace) - 1)]
  ELSE [prefix |-> t.prefix, suffix |-> <<>>, classes |-> t.classes,
        whitespace |-> t.whitespace]

\* sorting.ts 161: the run at (1-based) position index is dropped when the ordered
\* list's position index + 1 was removed.
RemovedBefore(removedIndices, index) == (index + 1) \in removedIndices

\* sorting.ts 161: whitespace.filter(...)
FilterWhitespace(whitespace, removedIndices) ==
  Only({[i \in 1..Len(kept) |-> kept[i][2]]
          : kept \in {SelectSeq([i \in 1..Len(whitespace) |-> <<i, whitespace[i]>>],
                                LAMBDA w : ~RemovedBefore(removedIndices, w[1]))}})

\* sorting.ts 163-165: result += classList[i] + (whitespace[i] ?? '')
Concatenate(classList, whitespace) ==
  Only({Join(pieces)
          : pieces \in {[i \in 1..Len(classList) |->
                           classList[i]
                             \o (IF i <= Len(whitespace) THEN whitespace[i] ELSE <<>>)]}})

\* sorting.ts 167-176: the replaces under shouldCollapse and the returned string.
Assemble(prefix, result, suffix, shouldCollapse) ==
  IF shouldCollapse.kind = "object"
  THEN ReplaceTrailingSpace(prefix, <<" ">>)
         \o Only({ReplaceTrailingSpace(trimmed, IF shouldCollapse.end THEN <<>> ELSE <<" ">>)
                    : trimmed \in {ReplaceLeadingSpace(
                                     result, IF shouldCollapse.start THEN <<>> ELSE <<" ">>)}})
         \o ReplaceLeadingSpace(suffix, <<" ">>)
  ELSE prefix \o result \o suffix

\* sorting.ts 153-176 for the classes and whitespace left after 143-151.
SortAndStitch(t, ord, removeDuplicates, shouldCollapse) ==
  Only({Only({Only({[listInput |-> t.classes, list |-> r, out |-> out]
                      : out \in {Assemble(t.prefix, result, t.suffix, shouldCollapse)}})
                : result \in {Only({Concatenate(r.classList, whitespace)
                                      : whitespace \in {FilterWhitespace(t.whitespace,
                                                                         r.removedIndices)}})}})
          : r \in {sortClassList(t.classes, ord, removeDuplicates)}})

\* sorting.ts 130-176
SortSteps(classStr0, ord, o) ==
  Only({Only({Only({SortAndStitch(held, ord, o.removeDuplicates, shouldCollapse)
                      : held \in {Only({IgnoreLast(first, o.ignoreLast)
                                          : first \in {IgnoreFirst(t, o.ignoreFirst)}})}})
                : t \in {Tokenize(classStr0, shouldCollapse.kind = "object")}})
          : shouldCollapse \in {ShouldCollapse(o.collapseWhitespace)}})

ContainsMustache_AtStart(str) == Len(str) >= 2 /\ str[1] = "{" /\ str[2] = "{"

\* sorting.ts 116
ContainsMustache(str) == \E i \in 1..(Len(str) - 1) : str[i] = "{" /\ str[i + 1] = "{"

\* sorting.ts 126
OnlyWhitespace(str) == str # <<>> /\ \A i \in 1..Len(str) : str[i] \in SplitWhitespace

NoList == [classList |-> <<>>, removedIndices |-> {}]

\* sorting.ts 98-177; `early` tells that one of the returns of 111-128 was taken.
sortClasses(classStr0, ord, o) ==
  IF classStr0 = <<>> \/ ContainsMustache(classStr0)
  THEN [early |-> TRUE, listInput |-> <<>>, list |-> NoList, out |-> classStr0]
  ELSE IF ShouldCollapse(o.collapseWhitespace).kind = "object" /\ OnlyWhitespace(classStr0)
  THEN [early |-> TRUE, listInput |-> <<>>, list |-> NoList, out |-> <<" ">>]
  ELSE Only({[early |-> FALSE, listInput |-> st.listInput, list |-> st.list, out |-> st.out]
               : st \in {SortSteps(classStr0, ord, o)}})

(***************************************************************************)
(* Inputs of Part II                                                       *)
(***************************************************************************)
MaxTokens == 3
MaxRank == 2

\* The classes an input is made of: two ordinary names, the two spread tokens,
\* the mustache marker, and a name that starts with a vertical tab (a character
\* that does not separate classes at sorting.ts 131 but is matched by \s).
InputClasses == {<<"a">>, <<"b">>, Dots, Ellipsis, <<"{", "{">>, <<"VT", "a">>}

\* <<leading, separating, trailing>> numbers of spaces of an input.
Layouts == {<<0, 1, 0>>, <<1, 2, 1>>}

Spaces(n) == [i \in 1..n |-> " "]

RECURSIVE Separated(_, _)
Separated(classList, gap) ==
  IF classList = <<>> THEN <<>>
  ELSE IF Len(classList) = 1 THEN classList[1]
  ELSE classList[1] \o Spaces(gap) \o Separated(Tail(classList), gap)

Render(classList, layout) ==
  Spaces(layout[1]) \o Separated(classList, layout[2]) \o Spaces(layout[3])

ClassLists == UNION {[1..n -> InputClasses] : n \in 0..MaxTokens}

Inputs == {Render(l, y) : l \in ClassLists, y \in Layouts}

Ranks == {Null} \cup {Known(n) : n \in 1..MaxRank}

\* Rank tables: a and b get any rank or none, "..." is ranked like a, and the
\* one-character ellipsis (like every other string) is unknown.
Oracles ==
  {o \in [{<<"a">>, <<"b">>, Dots} -> Ranks] : o[Dots] = o[<<"a">>]}

\* SortOptions (tailwind/types.ts 12-21); collapseWhitespace false or true.
OptionSets ==
  [ignoreFirst : BOOLEAN, ignoreLast : BOOLEAN, removeDuplicates : BOOLEAN,
   collapseWhitespace : {[kind |-> "false"], [kind |-> "true"]}]

SortIdle ==
  /\ classStr = <<>> /\ order = <<>> /\ opts = <<>>
  /\ sortPc = "off" /\ sorted = <<>> /\ listResult = <<>>

InitSort ==
  /\ ServiceInit /\ MatchIdle
  /\ classStr \in Inputs
  /\ order \in Oracles
  /\ opts \in OptionSets
  /\ sortPc = "ready"
  /\ sorted = <<>>
  /\ listResult = <<>>

\* One call sortClasses(classStr, context, options).
ApplySortClasses ==
  /\ sortPc = "ready"
  /\ \E r \in {sortClasses(classStr, order, opts)} :
     /\ sorted' = r.out
     /\ listResult' = [early |-> r.early, listInput |-> r.listInput, list |-> r.list]
  /\ sortPc' = "done"
  /\ UNCHANGED <<classStr, order, opts>>

NextSort == ApplySortClasses /\ UNCHANGED <<svcVars, matchVars>>

SpecSort == InitSort /\ [][NextSort]_vars

(***************************************************************************)
(* Inputs of Part II with every whitespace layout and every setting of the *)
(* options, collapseWhitespace objects included.                           *)
(***************************************************************************)
LayoutClasses == {<<"a">>, <<"b">>, <<"{">>, <<"a", "{", "{">>, <<"VT", "a">>}

\* The leading run, the runs between the classes (taken in turn) and the
\* trailing run of an input.
RunLayouts ==
  {[lead |-> <<>>, gaps |-> <<<<" ">>>>, trail |-> <<>>],
   [lead |-> <<" ">>, gaps |-> <<<<" ", " ">>, <<"TAB">>>>, trail |-> <<" ">>],
   [lead |-> <<"LF">>, gaps |-> <<<<" ">>>>, trail |-> <<>>],
   [lead |-> <<>>, gaps |-> <<<<" ">>, <<"LF", " ">>>>, trail |-> <<" ", "LF">>]}

RECURSIVE Interleave(_, _, _)
Interleave(classList, gaps, i) ==
  IF classList = <<>> THEN <<>>
  ELSE IF Len(classList) = 1 THEN classList[1]
  ELSE classList[1] \o gaps[((i - 1) % Len(gaps)) + 1]
         \o Interleave(Tail(classList), gaps, i + 1)

RenderLayout(classList, layout) ==
  layout.lead \o Interleave(classList, layout.gaps, 1) \o layout.trail

LayoutInputs ==
  {RenderLayout(l, y) : l \in UNION {[1..n -> LayoutClasses] : n \in 0..MaxTokens},
                        y \in RunLayouts}

\* Rank tables: nothing known, or b ranked before a.
LayoutOracles ==
  {[c \in {<<"a">>, <<"b">>} |-> Null],
   [c \in {<<"a">>, <<"b">>} |-> IF c = <<"a">> THEN Known(MaxRank) ELSE Known(1)]}

\* SortOptions (tailwind/types.ts 12-21); collapseWhitespace false, true or a
\* {start, end} object.
AllOptionSets ==
  [ignoreFirst : BOOLEAN, ignoreLast : BOOLEAN, removeDuplicates : BOOLEAN,
   collapseWhitespace :
     {[kind |-> "false"], [kind |-> "true"]}
       \cup [kind : {"object"}, start : BOOLEAN, end : BOOLEAN]]

InitLayout ==
  /\ ServiceInit /\ MatchIdle
  /\ classStr \in LayoutInputs
  /\ order \in LayoutOracles
  /\ opts \in AllOptionSets
  /\ sortPc = "ready"
  /\ sorted = <<>>
  /\ listResult = <<>>

SpecLayout == InitLayout /\ [][NextSort]_vars

(***************************************************************************)
(* Part III: matcher.ts                                                    *)
(*                                                                         *)
(* A text is a sequence of characters; offsets are those of the code,      *)
(* counted from 0.                                                         *)
(***************************************************************************)
DQ == "\""
SQ == "'"
BS == "\\"

\* str[i]; undefined past the end of the string.
CharAt(str, i) == IF i >= 0 /\ i < Len(str) THEN str[i + 1] ELSE "undefined"

\* str.slice(from, to) for 0 <= from
Slice(str, from, to) == SubSeq(str, from + 1, to)

\* inString = null
NoString == "null"

IsBackslash_Never(char) == FALSE

\* matcher.ts 186
IsBackslash(char) == char = BS

\* matcher.ts 177-208: the loop of extractBalancedContent, entered with the given
\* values of its variables; depth and i at its exit.
RECURSIVE ScanBalanced(_, _, _, _, _)
ScanBalanced(str, i, depth, inString, escaped) ==
  IF ~(i < Len(str) /\ depth > 0) THEN [depth |-> depth, i |-> i]
  ELSE IF escaped THEN ScanBalanced(str, i + 1, depth, inString, FALSE)
  ELSE IF IsBackslash(CharAt(str, i)) THEN ScanBalanced(str, i + 1, depth, inString, TRUE)
  ELSE IF inString # NoString
       THEN IF CharAt(str, i) = inString
            THEN ScanBalanced(str, i + 1, depth, NoString, FALSE)
            ELSE ScanBalanced(str, i + 1, depth, inString, FALSE)
  ELSE IF CharAt(str, i) \in {DQ, SQ}
       THEN ScanBalanced(str, i + 1, depth, CharAt(str, i), FALSE)
  ELSE IF CharAt(str, i) = "(" THEN ScanBalanced(str, i + 1, depth + 1, NoString, FALSE)
  ELSE IF CharAt(str, i) = ")" THEN ScanBalanced(str, i + 1, depth - 1, NoString, FALSE)
  ELSE ScanBalanced(str, i + 1, depth, NoString, FALSE)

\* The null of matcher.ts 169 and 211.
NoContent == [null |-> TRUE]

\* matcher.ts 164-219
extractBalancedContent(str, open) ==
  IF CharAt(str, open) # "(" THEN NoContent
  ELSE Only({IF exit.depth # 0 THEN NoContent
             ELSE [content |-> Slice(str, open + 1, exit.i - 1), endIndex |-> exit.i - 1]
               : exit \in {ScanBalanced(str, open + 1, 1, NoString, FALSE)}})

(***************************************************************************)
(* Inputs of extractBalancedContent                                        *)
(***************************************************************************)
MaxChars == 5

BalancedChars == {"(", ")", DQ, SQ, BS, "a"}

BalancedTexts == UNION {[1..n -> BalancedChars] : n \in 0..MaxChars}

InitBalanced ==
  /\ ServiceInit /\ SortIdle
  /\ text \in BalancedTexts
  /\ openParenIndex \in 0..Len(text)
  /\ patterns = <<>> /\ functionNames = <<>>
  /\ matchPc = "ready"
  /\ balanced = <<>> /\ found = <<>>
  /\ ScanIdle

\* One call extractBalancedContent(text, openParenIndex).
ApplyExtractBalancedContent ==
  /\ matchPc = "ready"
  /\ balanced' = extractBalancedContent(text, openParenIndex)
  /\ matchPc' = "done"
  /\ UNCHANGED <<text, openParenIndex, patterns, functionNames, found, scanVars>>

NextBalanced == ApplyExtractBalancedContent /\ UNCHANGED <<svcVars, sortVars>>

SpecBalanced == InitBalanced /\ [][NextBalanced]_vars

(***************************************************************************)
(* The function-call extractor                                             *)
(***************************************************************************)
\* The characters `.` of a regular expression does not match.
LineTerminators == {"LF", "CR"}

\* str.trim() === ''
IsBlank(str) == \A i \in 1..Len(str) : str[i] \in RegexSpace

\* matcher.ts 231: the rest of one alternative of stringRegex after its opening
\* quote, [^q\\]*(?:\\.[^q\\]*)*q, tried at offset j: the offset of the closing
\* quote, or -1 when the alternative does not match.
RECURSIVE StringEnd(_, _, _)
StringEnd(content, j, quote) ==
  IF j >= Len(content) THEN -1
  ELSE IF CharAt(content, j) = quote THEN j
  ELSE IF CharAt(content, j) = BS
       THEN IF j + 1 < Len(content) /\ CharAt(content, j + 1) \notin LineTerminators
            THEN StringEnd(content, j + 2, quote)
            ELSE -1
  ELSE StringEnd(content, j + 1, quote)

\* matcher.ts 233-242: the exec loop of stringRegex from lastIndex p on.
RECURSIVE ExecStrings(_, _, _)
ExecStrings(content, p, strings) ==
  IF p >= Len(content) THEN strings
  ELSE IF CharAt(content, p) \in {DQ, SQ}
       THEN Only({IF end = -1 THEN ExecStrings(content, p + 1, strings)
                  ELSE ExecStrings(content, end + 1,
                         Append(strings,
                                [value |-> Slice(content, p + 1, end),
                                 start |-> p + 1,
                                 fullMatch |-> <<CharAt(content, p)>>
                                                 \o Slice(content, p + 1, end)
                                                 \o <<CharAt(content, p)>>]))
                    : end \in {StringEnd(content, p + 1, CharAt(content, p))}})
  ELSE ExecStrings(content, p + 1, strings)

\* matcher.ts 225-245
extractStringsFromContent(content) == ExecStrings(content, 0, <<>>)

\* The offset of the first character from j on that \s does not match.
SkipSpace(str, j) ==
  CHOOSE k \in j..Len(str) :
    /\ CharAt(str, k) \notin RegexSpace
    /\ \A m \in j..(k - 1) : CharAt(str, m) \in RegexSpace

\* matcher.ts 119: name\s*\( tried at offset p: the offset after the match, or -1.
CallEnd(str, p, name) ==
  IF /\ p + Len(name) <= Len(str)
     /\ Slice(str, p, p + Len(name)) = name
     /\ CharAt(str, SkipSpace(str, p + Len(name))) = "("
  THEN SkipSpace(str, p + Len(name)) + 1
  ELSE -1

\* matcher.ts 115-119: functionStartRegex tried at offset p, the alternatives in
\* the order of the list.
MatchCallAt(str, p, names) ==
  IF \E k \in 1..Len(names) : CallEnd(str, p, names[k]) # -1
  THEN CallEnd(str, p, names[CHOOSE k \in 1..Len(names) :
                                /\ CallEnd(str, p, names[k]) # -1
                                /\ \A m \in 1..(k - 1) : CallEnd(str, p, names[m]) = -1])
  ELSE -1

\* matcher.ts 122: functionStartRegex.exec(text) from lastIndex on: the index of
\* the match, or -1.
ExecCall(str, lastIndex, names) ==
  IF \E p \in lastIndex..(Len(str) - 1) : MatchCallAt(str, p, names) # -1
  THEN CHOOSE p \in lastIndex..(Len(str) - 1) :
         /\ MatchCallAt(str, p, names) # -1
         /\ \A q \in lastIndex..(p - 1) : MatchCallAt(str, q, names) = -1
  ELSE -1

\* matcher.ts 134-154: the ClassMatch records of one call (without the range,
\* which is positionAt of classStartOffset and of the end offset).
PushStrings(stringMatches, index, startIndex) ==
  Only({[n \in 1..Cardinality(kept) |->
           Only({[fullMatch |-> strMatch.fullMatch,
                  classString |-> strMatch.value,
                  startOffset |-> index,
                  classStartOffset |-> startIndex + strMatch.start]
                   : strMatch \in {stringMatches[CHOOSE k \in kept :
                                       Cardinality({j \in kept : j < k}) = n - 1]}})]
          : kept \in {{k \in 1..Len(stringMatches) : ~IsBlank(stringMatches[k].value)}}})

\* matcher.ts 123-154: one iteration of the while loop for the match at index.
CallMatches(str, index, startIndex) ==
  Only({IF argsContent = NoContent THEN <<>>
        ELSE Only({PushStrings(stringMatches, index, startIndex)
                     : stringMatches \in {extractStringsFromContent(argsContent.content)}})
          : argsContent \in {extractBalancedContent(str, startIndex - 1)}})

\* matcher.ts 121-155: the while loop from lastIndex on.
RECURSIVE ExecCalls(_, _, _, _)
ExecCalls(str, names, lastIndex, matches) ==
  Only({IF index = -1 THEN matches
        ELSE Only({Only({ExecCalls(str, names, startIndex, more)
                           : more \in {matches \o CallMatches(str, index, startIndex)}})
                     : startIndex \in {MatchCallAt(str, index, names)}})
          : index \in {ExecCall(str, lastIndex, names)}})

\* matcher.ts 103-158
findClassFunctionMatches(str, names) ==
  IF Len(names) = 0 THEN <<>> ELSE ExecCalls(str, names, 0, <<>>)

(***************************************************************************)
(* The pattern rules and findClassMatches                                  *)
(*                                                                         *)
(* A pattern rule is [wellFormed, open, min, close, alternatives,          *)
(* captureGroup]. With min = 1 and no alternatives it stands for the regex *)
(* open([^close]+)close of the built-in rule sets (config.ts 27-76), such  *)
(* as class="([^"]+)". A rule of the user's settings can be any string:    *)
(* min = 0 stands for the quantifier * in place of +, alternatives for     *)
(* literal alternatives appended with | (the empty one included, as in     *)
(* class="([^"]+)"| ), and wellFormed = FALSE for a regex source that      *)
(* new RegExp rejects, such as class="([^"]+" .                            *)
(***************************************************************************)
\* The offset of the first `close` from j on, Len(str) when there is none.
BodyEnd(str, j, close) ==
  CHOOSE k \in j..Len(str) :
    /\ (k = Len(str) \/ CharAt(str, k) = close)
    /\ \A m \in j..(k - 1) : CharAt(str, m) # close

\* The first alternative open([^close]{min,})close tried at offset p: the offset
\* after the match, or -1.
MainEnd(str, p, pattern) ==
  IF /\ p + Len(pattern.open) <= Len(str)
     /\ Slice(str, p, p + Len(pattern.open)) = pattern.open
  THEN Only({IF bodyEnd >= p + Len(pattern.open) + pattern.min /\ bodyEnd < Len(str)
             THEN bodyEnd + 1 ELSE -1
               : bodyEnd \in {BodyEnd(str, p + Len(pattern.open), pattern.close)}})
  ELSE -1

\* The literal alternatives from the k-th on tried at offset p, in the order
\* they are written: the offset after the match, or -1.
RECURSIVE AlternativeEnd(_, _, _, _)
AlternativeEnd(str, p, alternatives, k) ==
  IF k > Len(alternatives) THEN -1
  ELSE IF /\ p + Len(alternatives[k]) <= Len(str)
          /\ Slice(str, p, p + Len(alternatives[k])) = alternatives[k]
       THEN p + Len(alternatives[k])
       ELSE AlternativeEnd(str, p, alternatives, k + 1)

\* The regex of the rule tried at offset p: the offset after the match, or -1.
PatternEnd(str, p, pattern) ==
  Only({IF mainEnd # -1 THEN mainEnd
        ELSE AlternativeEnd(str, p, pattern.alternatives, 1)
          : mainEnd \in {MainEnd(str, p, pattern)}})

\* matcher.ts 47: regex.exec(text) from lastIndex on: the index of the match, or
\* -1. The match may be the empty one at the end of the text.
ExecPattern(str, lastIndex, pattern) ==
  IF \E p \in lastIndex..Len(str) : PatternEnd(str, p, pattern) # -1
  THEN CHOOSE p \in lastIndex..Len(str) :
         /\ PatternEnd(str, p, pattern) # -1
         /\ \A q \in lastIndex..(p - 1) : PatternEnd(str, q, pattern) = -1
  ELSE -1

\* match[captureGroup] (matcher.ts 49) of the match from index up to end;
\* <<>> stands for '' and for the undefined of a group the regex does not have
\* or that took no part in the match (a literal alternative matched).
Capture(str, index, end, pattern) ==
  IF pattern.captureGroup = 0 THEN Slice(str, index, end)
  ELSE IF pattern.captureGroup = 1 /\ MainEnd(str, index, pattern) # -1
       THEN Slice(str, index + Len(pattern.open), end - 1)
       ELSE <<>>

IndexOf_MatchStart(fullMatch, classString) == 0

\* fullMatch.indexOf(classString) for a classString that occurs in fullMatch
IndexOf(fullMatch, classString) ==
  CHOOSE i \in 0..(Len(fullMatch) - Len(classString)) :
    /\ Slice(fullMatch, i, i + Len(classString)) = classString
    /\ \A j \in 0..(i - 1) : Slice(fullMatch, j, j + Len(classString)) # classString

\* matcher.ts 48-74: one iteration of the while loop for the match from index up
\* to end.
PatternMatch(str, index, end, pattern) ==
  Only({IF IsBlank(classString) THEN <<>>
        ELSE <<[fullMatch |-> Slice(str, index, end),
                classString |-> classString,
                startOffset |-> index,
                classStartOffset |-> index + IndexOf(Slice(str, index, end), classString)]>>
          : classString \in {Capture(str, index, end, pattern)}})

\* matcher.ts 47-75: the while loop from lastIndex on.
RECURSIVE ExecPatterns(_, _, _, _)
ExecPatterns(str, pattern, lastIndex, matches) ==
  Only({IF index = -1 THEN matches
        ELSE Only({Only({ExecPatterns(str, pattern, end, more)
                           : more \in {matches \o PatternMatch(str, index, end, pattern)}})
                     : end \in {PatternEnd(str, index, pattern)}})
          : index \in {ExecPattern(str, lastIndex, pattern)}})

Compiles_Always(pattern) == TRUE

\* matcher.ts 44: new RegExp(pattern.regex, 'g') returns; it throws otherwise.
Compiles(pattern) == pattern.wellFormed

\* matcher.ts 35-82: the catch of lines 76-79 takes the function to the return
\* of line 81 with the list still empty.
findMatchesForPattern(str, pattern) ==
  IF Compiles(pattern) THEN ExecPatterns(str, pattern, 0, <<>>) ELSE <<>>

\* matcher.ts 17-20
RECURSIVE AllPatternMatches(_, _, _)
AllPatternMatches(str, patternList, k) ==
  IF k > Len(patternList) THEN <<>>
  ELSE findMatchesForPattern(str, patternList[k]) \o AllPatternMatches(str, patternList, k + 1)

\* matcher.ts 28: the comparator orders by a.startOffset - b.startOffset.
SortKey(match) == match.startOffset

\* matcher.ts 28: Array.prototype.sort is stable, and the comparator is a
\* consistent order, so the result is the stable arrangement by SortKey: the
\* element at position i goes behind the elements of smaller key and the
\* earlier elements of equal key.
SortMatches(matches) ==
  [n \in 1..Len(matches) |->
     matches[CHOOSE i \in 1..Len(matches) :
               Cardinality({j \in 1..Len(matches) :
                              \/ SortKey(matches[j]) < SortKey(matches[i])
                              \/ SortKey(matches[j]) = SortKey(matches[i]) /\ j < i})
                 = n - 1]]

\* matcher.ts 90
DedupKey(match) == <<match.classStartOffset, Len(match.classString)>>

\* matcher.ts 87-97
deduplicateMatches(matches) ==
  Only({[n \in 1..Cardinality(kept) |->
           matches[CHOOSE i \in kept : Cardinality({j \in kept : j < i}) = n - 1]]
          : kept \in {{i \in 1..Len(matches) :
                         \A j \in 1..(i - 1) : DedupKey(matches[j]) # DedupKey(matches[i])}}})

\* matcher.ts 8-30; classFunctionMatches is the list of line 24.
findClassMatches(str, patternList, names) ==
  Only({[classFunctionMatches |-> classFunctionMatches,
         matches |-> Only({Only({deduplicateMatches(ordered)
                                   : ordered \in {SortMatches(all)}})
                            : all \in {AllPatternMatches(str, patternList, 1)
                                         \o classFunctionMatches}})]
          : classFunctionMatches \in {findClassFunctionMatches(str, names)}})

(***************************************************************************)
(* Inputs of findClassMatches                                              *)
(***************************************************************************)
MaxFragments == 4

\* The pieces documents are made of: the start of a call of f, a closing
\* parenthesis, string literals (plain, single-quoted, blank, one that ends
\* with an escaped quote and one with a backslash-newline line continuation), a
\* letter that makes an identifier longer, and the start of an attribute k="...".
Fragments ==
  {<<"f", "(">>, <<")">>, <<DQ, "a", DQ>>, <<SQ, "b", SQ>>, <<DQ, " ", DQ>>,
   <<DQ, "a", BS, DQ, DQ>>, <<DQ, BS, "LF", "a", DQ>>, <<"x">>, <<"k", "=">>}

Documents == {Join(l) : l \in UNION {[1..n -> Fragments] : n \in 0..MaxFragments}}

\* k="([^"]+)" with the class text in group 1, and the same regex with
\* captureGroup 0.
AttributeRule(captureGroup) ==
  [wellFormed |-> TRUE, open |-> <<"k", "=", DQ>>, min |-> 1, close |-> DQ,
   alternatives |-> <<>>, captureGroup |-> captureGroup]

\* languageConfig.patterns and config.classFunctions
Configurations ==
  {[patterns |-> <<>>, functionNames |-> <<>>],
   [patterns |-> <<>>, functionNames |-> << <<"f">> >>],
   [patterns |-> <<>>, functionNames |-> << <<"F">>, <<"x">> >>],
   [patterns |-> <<AttributeRule(1)>>, functionNames |-> << <<"f">> >>],
   [patterns |-> <<AttributeRule(0), AttributeRule(1)>>, functionNames |-> << <<"f">> >>]}

InitMatch ==
  /\ ServiceInit /\ SortIdle
  /\ text \in Documents
  /\ openParenIndex = 0
  /\ \E c \in Configurations : patterns = c.patterns /\ functionNames = c.functionNames
  /\ matchPc = "ready"
  /\ balanced = <<>> /\ found = <<>>
  /\ ScanIdle

\* One call findClassMatches(document, languageConfig).
ApplyFindClassMatches ==
  /\ matchPc = "ready"
  /\ found' = findClassMatches(text, patterns, functionNames)
  /\ matchPc' = "done"
  /\ UNCHANGED <<text, openParenIndex, patterns, functionNames, balanced, scanVars>>

NextMatch == ApplyFindClassMatches /\ UNCHANGED <<svcVars, sortVars>>

SpecMatch == InitMatch /\ [][NextMatch]_vars

(***************************************************************************)
(* Inputs of findClassMatches for the rules of the user's settings         *)
(***************************************************************************)
MaxPieces == 3

\* Whole attributes (with a class, with the class k that also stands in the
\* attribute name, blank and empty), a letter, the start and the end of a call
\* of f, a string literal, and a pair k: "k: " in the way of class: "..." whose
\* value repeats the text in front of it.
RulePieces ==
  {<<"k", "=", DQ, "a", DQ>>, <<"k", "=", DQ, "k", DQ>>, <<"k", "=", DQ, " ", DQ>>,
   <<"k", "=", DQ, DQ>>, <<"x">>, <<"f", "(">>, <<")">>, <<DQ, "a", DQ>>,
   <<"k", ":", " ", DQ, "k", ":", " ", DQ>>}

RuleDocuments == {Join(l) : l \in UNION {[1..n -> RulePieces] : n \in 0..MaxPieces}}

\* k="([^"]*)"
StarRule == [AttributeRule(1) EXCEPT !.min = 0]

\* k="([^"]+)"|x , where group 1 takes no part in a match of x
AlternativeRule == [AttributeRule(1) EXCEPT !.alternatives = << <<"x">> >>]

\* k="([^"]+" , which new RegExp rejects (unterminated group)
InvalidRule == [AttributeRule(1) EXCEPT !.wellFormed = FALSE]

\* k: "([^"]+)" , in the way of the built-in class:\s*["']([^"']+)["']
PairRule == [AttributeRule(1) EXCEPT !.open = <<"k", ":", " ", DQ>>]

RuleLists ==
  {<<AttributeRule(1)>>, <<PairRule>>, <<AttributeRule(0)>>, <<AttributeRule(2)>>, <<StarRule>>,
   <<AlternativeRule>>, <<InvalidRule>>, <<InvalidRule, AttributeRule(1)>>,
   <<StarRule, InvalidRule>>}

InitRules ==
  /\ ServiceInit /\ SortIdle
  /\ text \in RuleDocuments
  /\ openParenIndex = 0
  /\ patterns \in RuleLists
  /\ functionNames = << <<"f">> >>
  /\ matchPc = "ready"
  /\ balanced = <<>> /\ found = <<>>
  /\ ScanIdle

SpecRules == InitRules /\ [][NextMatch]_vars

(***************************************************************************)
(* findClassMatches one turn of the while loop at a time                   *)
(***************************************************************************)
\* matcher.ts 47-75: one turn of the while loop of the rule at ruleIndex, for
\* which regex.exec found a match. exec leaves lastIndex at the end of the
\* match, which is its start when the match is empty.
ScanIteration ==
  /\ matchPc = "scan" /\ ruleIndex <= Len(patterns)
  /\ Compiles(patterns[ruleIndex])
  /\ \E index \in {ExecPattern(text, regexLastIndex, patterns[ruleIndex])} :
       /\ index # -1
       /\ \E end \in {PatternEnd(text, index, patterns[ruleIndex])} :
            /\ scanMatches' =
                 scanMatches \o PatternMatch(text, index, end, patterns[ruleIndex])
            /\ regexLastIndex' = end
  /\ iterations' = IF iterations <= Len(text) THEN iterations + 1 ELSE iterations
  /\ UNCHANGED <<text, openParenIndex, patterns, functionNames, matchPc, balanced,
                 found, ruleIndex>>

\* matcher.ts 17-20, 43-47, 76-81: new RegExp threw or regex.exec returned null;
\* findMatchesForPattern returns and the for loop takes the next rule.
ScanNextRule ==
  /\ matchPc = "scan" /\ ruleIndex <= Len(patterns)
  /\ \/ ~Compiles(patterns[ruleIndex])
     \/ ExecPattern(text, regexLastIndex, patterns[ruleIndex]) = -1
  /\ ruleIndex' = ruleIndex + 1
  /\ regexLastIndex' = 0
  /\ iterations' = 0
  /\ UNCHANGED <<text, openParenIndex, patterns, functionNames, matchPc, balanced,
                 found, scanMatches>>

\* matcher.ts 23-29: the function calls, the sort, the deduplication and the
\* return.
ScanReturn ==
  /\ matchPc = "scan" /\ ruleIndex > Len(patterns)
  /\ \E classFunctionMatches \in {findClassFunctionMatches(text, functionNames)} :
       \E ordered \in {SortMatches(scanMatches \o classFunctionMatches)} :
         found' = [classFunctionMatches |-> classFunctionMatches,
                   matches |-> deduplicateMatches(ordered)]
  /\ matchPc' = "done"
  /\ UNCHANGED <<text, openParenIndex, patterns, functionNames, balanced, scanVars>>

\* Attributes with a class, blank and empty, a letter and a call of f.
ScanPieces ==
  {<<"k", "=", DQ, "a", DQ>>, <<"k", "=", DQ, " ", DQ>>, <<"k", "=", DQ, DQ>>, <<"x">>,
   <<"f", "(", DQ, "a", DQ, ")">>}

ScanTexts == {Join(l) : l \in UNION {[1..n -> ScanPieces] : n \in 0..MaxPieces}}

\* k="([^"]+)"| , whose second alternative matches the empty string wherever the
\* first one does not match.
EmptyAlternativeRule(captureGroup) ==
  [AttributeRule(captureGroup) EXCEPT !.alternatives = << <<>> >>]

ScanLists ==
  {<<AttributeRule(1)>>, <<AttributeRule(2)>>, <<StarRule>>, <<AlternativeRule>>,
   <<InvalidRule, AttributeRule(1)>>, <<EmptyAlternativeRule(1)>>,
   <<EmptyAlternativeRule(0), AttributeRule(1)>>}

InitScan ==
  /\ ServiceInit /\ SortIdle
  /\ text \in ScanTexts
  /\ openParenIndex = 0
  /\ patterns \in ScanLists
  /\ functionNames = << <<"f">> >>
  /\ matchPc = "scan"
  /\ balanced = <<>> /\ found = <<>>
  /\ ruleIndex = 1 /\ regexLastIndex = 0 /\ scanMatches = <<>> /\ iterations = 0

NextScan ==
  \/ ScanIteration /\ UNCHANGED <<svcVars, sortVars>>
  \/ ScanNextRule /\ UNCHANGED <<svcVars, sortVars>>
  \/ ScanReturn /\ UNCHANGED <<svcVars, sortVars>>

\* The loops are synchronous code: a turn that can be taken is taken.
SpecScan == InitScan /\ [][NextScan]_vars /\ WF_vars(NextScan)

Init == ServiceInit /\ SortIdle /\ MatchIdle

Next ==
  \/ \E c \in Callers, h \in Hashes, n \in 1..MaxSpans :
       StartRequest(c, h, n) /\ UNCHANGED <<sortVars, matchVars>>
  \/ \E c \in Callers : Initialize(c) /\ UNCHANGED <<sortVars, matchVars>>
  \/ \E b \in Builds : BuildSucceed(b) /\ UNCHANGED <<sortVars, matchVars>>
  \/ \E b \in Builds : BuildFail(b) /\ UNCHANGED <<sortVars, matchVars>>
  \/ \E c \in Callers : ResumeAfterPending(c) /\ UNCHANGED <<sortVars, matchVars>>
  \/ \E c \in Callers : ResumeAfterOwn(c) /\ UNCHANGED <<sortVars, matchVars>>
  \/ \E c \in Callers : ResumeSort(c) /\ UNCHANGED <<sortVars, matchVars>>
  \/ \E c \in Callers : NextSpan(c) /\ UNCHANGED <<sortVars, matchVars>>
  \/ \E c \in Callers : Return(c) /\ UNCHANGED <<sortVars, matchVars>>
  \/ Dispose /\ UNCHANGED <<sortVars, matchVars>>

Spec == Init /\ [][Next]_vars

(***************************************************************************)
(* Claims about the service                                                *)
(***************************************************************************)
PendingFor(h) == {b \in Builds : buildState[b] = "pending" /\ buildHash[b] = h}

\* Position of build b in the order of settlement (0 = not settled).
SettledAt(b) ==
  IF \E i \in 1..Len(settled) : settled[i] = b
  THEN CHOOSE i \in 1..Len(settled) : settled[i] = b
  ELSE 0

\* C1: at any time at most one doInitialize build per fingerprint is in flight.
C1_SingleFlightPerHash == \A h \in Hashes : Cardinality(PendingFor(h)) <= 1

\* C2: a sortClasses call that awaited a build that threw is rejected, and after a
\* build for a fingerprint has failed no call with that fingerprint returns a
\* result computed with an oracle that was installed before that failure.
C2_FailureRejectsAndLeavesNoOracle ==
  \A c \in Callers :
    (pc[c] = "next" /\ lastOutcome[c] = "ok") =>
      /\ \A b \in awaited[c] : buildState[b] # "rejected"
      /\ ~ \E b \in Builds :
             /\ buildState[b] = "rejected"
             /\ buildHash[b] = callHash[c]
             /\ SettledAt(lastCtx[c]) < SettledAt(b)

\* C3: a returned result was computed with an oracle built for the fingerprint of
\* the call's config.
C3_ResultUsesOracleOfCallHash ==
  \A c \in Callers :
    (pc[c] = "next" /\ lastOutcome[c] = "ok") => buildHash[lastCtx[c]] = callHash[c]

\* C3 witness: a call returned a result for a fingerprint that differs from the one
\* whose oracle was cached before (a build for the other fingerprint had succeeded
\* earlier).
C3_Witness ==
  \E c \in Callers :
    /\ pc[c] = "next" /\ lastOutcome[c] = "ok"
    /\ \E b \in Builds :
         /\ buildState[b] = "fulfilled"
         /\ buildHash[b] # callHash[c]
         /\ SettledAt(b) < SettledAt(lastCtx[c])

\* C4: a request over at least one span during which a sortClasses call failed
\* ends in an error outcome.
C4_BuildFailureSurfaces ==
  \A c \in Callers :
    (pc[c] = "report" /\ failures[c] > 0) => docOutcome[c] = "error"


(***************************************************************************)
(* Claims about sortClasses                                                *)
(***************************************************************************)
Done == sortPc = "done"

\* The non-empty tokens of a class string, in order.
Tokens(str) == SelectSeq(EvenParts(Split(str)), LAMBDA t : t # <<>>)

InTokens == Tokens(classStr)
OutTokens == Tokens(sorted)

RankOf(tok) == IF tok \in DOMAIN order THEN order[tok] ELSE Null

Count(tok, list) == Cardinality({i \in 1..Len(list) : list[i] = tok})

Members(list) == {list[i] : i \in 1..Len(list)}

HoldsAside == opts.ignoreFirst \/ opts.ignoreLast

\* p may stand before q in sorted order: spreads last, unknown classes first,
\* known classes by ascending rank.
MayPrecede(p, q) ==
  \/ q \in Spreads
  \/ /\ p \notin Spreads
     /\ \/ RankOf(p) = Null
        \/ RankOf(q) # Null /\ RankOf(p)[1] <= RankOf(q)[1]

InputSorted ==
  \A i, j \in 1..Len(InTokens) : i < j => MayPrecede(InTokens[i], InTokens[j])

InputDuplicateFree ==
  \A i, j \in 1..Len(InTokens) : i < j => InTokens[i] # InTokens[j]

\* No leading or trailing whitespace, single spaces between the tokens.
WhitespaceNormalised(str) == str = Separated(Tokens(str), 1)

\* C5: a class string whose tokens are in sorted order and duplicate-free is
\* returned unchanged; stated here for the strings whose whitespace is already
\* normalised, which collapsing has no reason to touch.
C5_SortedInputUnchanged ==
  (Done /\ InputSorted /\ InputDuplicateFree /\ WhitespaceNormalised(classStr))
    => sorted = classStr

\* C6 as stated: an input that contains "..." or the ellipsis yields an output that
\* ends with that token.
C6_SpreadEndsOutput ==
  Done => \A s \in Spreads :
            s \in Members(InTokens) =>
              OutTokens # <<>> /\ OutTokens[Len(OutTokens)] = s

\* C6 amended: with ignoreFirst and ignoreLast off and no mustache marker in the
\* input, an input that contains a spread token yields an output whose last token
\* is a spread token of the input.
C6_SpreadEndsSortedOutput ==
  (Done /\ ~HoldsAside /\ ~ContainsMustache(classStr)
        /\ Members(InTokens) \cap Spreads # {}) =>
    /\ OutTokens # <<>>
    /\ OutTokens[Len(OutTokens)] \in Members(InTokens) \cap Spreads

C6_Witness ==
  /\ Done /\ ~HoldsAside
  /\ Len(InTokens) >= 2
  /\ InTokens[1] \in Spreads /\ InTokens[2] \notin Spreads
  /\ ~ContainsMustache(classStr)
  /\ OutTokens[Len(OutTokens)] = InTokens[1]

KnownDuplicateFree(list) ==
  \A i, j \in 1..Len(list) : (i < j /\ list[i] = list[j]) => RankOf(list[i]) = Null

\* C7: with removeDuplicates no class of known rank occurs twice in the output;
\* stated here with ignoreFirst and ignoreLast off and no mustache marker, where
\* every token of the input goes through sortClassList.
C7_NoKnownDuplicate ==
  (Done /\ opts.removeDuplicates /\ ~HoldsAside /\ ~ContainsMustache(classStr))
    => KnownDuplicateFree(OutTokens)

\* C8: with removeDuplicates every occurrence of a class of unknown rank in the
\* input is present in the output, of sortClasses and of sortClassList.
C8_UnknownNeverRemoved ==
  (Done /\ opts.removeDuplicates) =>
    /\ \A t \in Members(InTokens) :
         RankOf(t) = Null => Count(t, OutTokens) >= Count(t, InTokens)
    /\ \A t \in Members(listResult.listInput) :
         RankOf(t) = Null =>
           Count(t, listResult.list.classList) >= Count(t, listResult.listInput)

\* C9: without removeDuplicates the output tokens are a permutation of the input
\* tokens, and sortClassList keeps the length and removes no index.
C9_PermutationWithoutDedup ==
  (Done /\ ~opts.removeDuplicates) =>
    /\ \A t \in Members(InTokens) \cup Members(OutTokens) :
         Count(t, OutTokens) = Count(t, InTokens)
    /\ Len(listResult.list.classList) = Len(listResult.listInput)
    /\ listResult.list.removedIndices = {}

UnknownBeforeKnown(list) ==
  \A i, j \in 1..Len(list) :
    (i < j /\ list[i] \notin Spreads /\ list[j] \notin Spreads) =>
      ~(RankOf(list[i]) # Null /\ RankOf(list[j]) = Null)

\* C10: in the output every class of unknown rank stands before every class of
\* known rank, spreads excepted; stated here with ignoreFirst and ignoreLast off
\* and no mustache marker, where every token of the input is reordered.
C10_UnknownBeforeKnown ==
  (Done /\ ~HoldsAside /\ ~ContainsMustache(classStr)) => UnknownBeforeKnown(OutTokens)

\* The tokens of `list` that belong to `S`, in order.
Restrict(list, S) == SelectSeq(list, LAMBDA t : t \in S)

\* `list` without the later occurrences of a token that occurred before.
FirstOccurrences(list) ==
  Only({[k \in 1..Cardinality(kept) |->
           list[CHOOSE i \in kept : Cardinality({j \in kept : j < i}) = k - 1]]
          : kept \in {{i \in 1..Len(list) : \A j \in 1..(i - 1) : list[j] # list[i]}}})

\* The order sortClassList leaves the tokens of S in: their order in its input,
\* less the later copies that removeDuplicates takes out of a known class.
KeepsOrderOf(S) ==
  Restrict(listResult.list.classList, S) =
    IF opts.removeDuplicates /\ \A t \in S : RankOf(t) # Null
    THEN FirstOccurrences(Restrict(listResult.listInput, S))
    ELSE Restrict(listResult.listInput, S)

Sorted == Done /\ ~listResult.early

\* C11 as stated: any two tokens of equal rank (equal known ranks, or both
\* unknown) keep their relative order through the sort.
C11_EqualRankKeepsOrder ==
  Sorted => \A p, q \in Members(listResult.listInput) :
              RankOf(p) = RankOf(q) => KeepsOrderOf({p, q})

\* C11 amended: any two tokens of equal rank, neither of them a spread token,
\* keep their relative order through the sort, and the known ranks of the
\* tokens that are not spread tokens ascend through the sorted list.
C11_StableAscending ==
  Sorted =>
    /\ \A p, q \in Members(listResult.listInput) \ Spreads :
          RankOf(p) = RankOf(q) => KeepsOrderOf({p, q})
    /\ \A i, j \in 1..Len(listResult.list.classList) :
          Only({(/\ i < j
                 /\ p \notin Spreads /\ q \notin Spreads
                 /\ RankOf(p) # Null /\ RankOf(q) # Null)
                  => RankOf(p)[1] <= RankOf(q)[1]
                 : p \in {listResult.list.classList[i]},
                   q \in {listResult.list.classList[j]}})

\* Two unknown classes stand in the input after a class of known rank and come
\* out before it, in the order they stood in.
C11_Witness ==
  /\ Sorted
  /\ listResult.listInput = <<<<"a">>, <<"VT", "a">>, <<"b">>>>
  /\ RankOf(<<"a">>) # Null /\ RankOf(<<"b">>) = Null
  /\ listResult.list.classList = <<<<"VT", "a">>, <<"b">>, <<"a">>>>

\* The two characters `{{` stand somewhere in the input.
MarkerIn(str) == \E i \in 1..(Len(str) - 1) : SubSeq(str, i, i + 1) = <<"{", "{">>

\* C12: an input that is empty or holds `{{` anywhere is returned unchanged by
\* one of the returns that precede the query of the oracle, whatever the options.
C12_EmptyOrMustacheUntouched ==
  (Done /\ (classStr = <<>> \/ MarkerIn(classStr))) =>
    /\ sorted = classStr
    /\ listResult.early /\ listResult.listInput = <<>>

\* An input with `{{` inside its last class, with surrounding whitespace and
\* classes out of order, went through with collapsing and removal enabled.
C12_Witness ==
  /\ Done
  /\ MarkerIn(classStr)
  /\ classStr[1] \in SplitWhitespace
  /\ Len(InTokens) = 3 /\ InTokens[1] = <<"b">> /\ InTokens[2] = <<"b">>
  /\ InTokens[3] = <<"a", "{", "{">>
  /\ RankOf(<<"b">>) # Null
  /\ opts.collapseWhitespace.kind = "object" /\ opts.removeDuplicates
  /\ sorted = classStr

\* The whitespace runs of a class string: the leading run, the runs between
\* consecutive classes and the trailing run ('' where the string has no leading
\* or no trailing whitespace).
WhitespaceRuns(str) ==
  LET parts == Split(str)
      between == {i \in 1..(Len(parts) \div 2) :
                    parts[2 * i - 1] # <<>> /\ parts[2 * i + 1] # <<>>}
  IN [lead |-> IF Len(parts) > 1 /\ parts[1] = <<>> THEN parts[2] ELSE <<>>,
      trail |-> IF Len(parts) > 1 /\ parts[Len(parts)] = <<>>
                THEN parts[Len(parts) - 1] ELSE <<>>,
      inner |-> [k \in 1..Cardinality(between) |->
                   parts[2 * (CHOOSE i \in between :
                                Cardinality({j \in between : j < i}) = k - 1)]]]

Collapsing == opts.collapseWhitespace.kind # "false"

\* C13: with collapsing enabled the returned string has single spaces between
\* its classes, no leading (trailing) whitespace when start (end) is true and
\* exactly one space when it is false; stated for the inputs that hold a class
\* and no `{{`, which are the ones that reach the collapsing code.
C13_CollapsedWhitespace ==
  (Done /\ Collapsing /\ InTokens # <<>> /\ ~MarkerIn(classStr)) =>
    LET runs == WhitespaceRuns(sorted)
        shouldCollapse == ShouldCollapse(opts.collapseWhitespace)
    IN /\ \A k \in 1..Len(runs.inner) : runs.inner[k] = <<" ">>
       /\ runs.lead = IF shouldCollapse.start THEN <<>> ELSE <<" ">>
       /\ runs.trail = IF shouldCollapse.end THEN <<>> ELSE <<" ">>

\* C14: with ignoreFirst the first class of the input is the first class of the
\* output, and with ignoreLast the last class of the input is the last class of
\* the output, also for inputs with leading or trailing whitespace.
C14_HeldAsideStaysInPlace ==
  (Done /\ InTokens # <<>>) =>
    /\ opts.ignoreFirst => (OutTokens # <<>> /\ OutTokens[1] = InTokens[1])
    /\ opts.ignoreLast =>
          (OutTokens # <<>> /\ OutTokens[Len(OutTokens)] = InTokens[Len(InTokens)])

RunSequence(str) ==
  LET runs == WhitespaceRuns(str) IN <<runs.lead>> \o runs.inner \o <<runs.trail>>

\* C15: with collapseWhitespace and removeDuplicates both false the whitespace
\* runs of the output (leading, between consecutive classes, trailing) are those
\* of the input, run by run and in order.
C15_WhitespaceRunsPreserved ==
  (Done /\ ~Collapsing /\ ~opts.removeDuplicates) =>
    RunSequence(sorted) = RunSequence(classStr)

(***************************************************************************)
(* Claims about the span extractor                                         *)
(***************************************************************************)
BalancedDone == matchPc = "done" /\ balanced # <<>>

\* The offsets from k on of the characters that stand outside every quoted
\* string: a quote opens a string that runs to the next same quote that no
\* backslash precedes, and, with escapeOutside, a backslash outside a string
\* also takes the character after it out of consideration.
RECURSIVE Structural(_, _, _, _)
Structural(str, k, inString, escapeOutside) ==
  IF k >= Len(str) THEN {}
  ELSE IF inString # NoString
       THEN IF CharAt(str, k) = BS THEN Structural(str, k + 2, inString, escapeOutside)
            ELSE IF CharAt(str, k) = inString
                 THEN Structural(str, k + 1, NoString, escapeOutside)
                 ELSE Structural(str, k + 1, inString, escapeOutside)
  ELSE IF CharAt(str, k) = BS /\ escapeOutside
       THEN Structural(str, k + 2, NoString, escapeOutside)
  ELSE IF CharAt(str, k) \in {DQ, SQ}
       THEN Structural(str, k + 1, CharAt(str, k), escapeOutside)
  ELSE {k} \cup Structural(str, k + 1, NoString, escapeOutside)

\* The offsets of the ')' that bring the nesting opened at `open` back to zero.
Closers(str, open, escapeOutside) ==
  LET outside == Structural(str, open + 1, NoString, escapeOutside)
      Depth(j) == 1 + Cardinality({k \in outside : k <= j /\ CharAt(str, k) = "("})
                    - Cardinality({k \in outside : k <= j /\ CharAt(str, k) = ")"})
  IN {j \in outside : CharAt(str, j) = ")" /\ Depth(j) = 0}

\* What extractBalancedContent is to return: null when str[open] is not '(' or
\* nothing closes it, else the text up to the first closing ')' and its offset.
MatchingParen(str, open, escapeOutside) ==
  LET closers == Closers(str, open, escapeOutside) IN
  IF CharAt(str, open) # "(" \/ closers = {} THEN NoContent
  ELSE LET j == CHOOSE c \in closers : \A d \in closers : c <= d
       IN [content |-> Slice(str, open + 1, j), endIndex |-> j]

MatchDone == matchPc = "done" /\ found # <<>>

\* The offset of the quote that closes a string literal opened before offset j:
\* the first such quote that no backslash escapes; -1 when there is none.
RECURSIVE LiteralEnd(_, _, _)
LiteralEnd(content, j, quote) ==
  IF j >= Len(content) THEN -1
  ELSE IF CharAt(content, j) = BS THEN LiteralEnd(content, j + 2, quote)
  ELSE IF CharAt(content, j) = quote THEN j
  ELSE LiteralEnd(content, j + 1, quote)

\* The single- and double-quoted string literals of `content` from offset p on,
\* in source order: the content of each and the offset where it starts.
RECURSIVE Literals(_, _)
Literals(content, p) ==
  IF p >= Len(content) THEN <<>>
  ELSE IF CharAt(content, p) \in {DQ, SQ}
       THEN LET end == LiteralEnd(content, p + 1, CharAt(content, p)) IN
            IF end = -1 THEN <<>>
            ELSE <<[value |-> Slice(content, p + 1, end), start |-> p + 1]>>
                   \o Literals(content, end + 1)
  ELSE Literals(content, p + 1)

\* The offsets at which a configured name, optional whitespace and '(' stand.
CallSites == {p \in 0..(Len(text) - 1) : MatchCallAt(text, p, functionNames) # -1}

ArgsOf(p) == extractBalancedContent(text, MatchCallAt(text, p, functionNames) - 1)

\* What findClassFunctionMatches emitted for the call site p: class text and
\* offset of each result, in the order of the list.
EmittedFor(p) ==
  LET mine == SelectSeq(found.classFunctionMatches, LAMBDA m : m.startOffset = p)
  IN [n \in 1..Len(mine) |->
        [classString |-> mine[n].classString, classStartOffset |-> mine[n].classStartOffset]]

\* One result per literal of the call at p that is neither empty nor blank.
LiteralsFor(p) ==
  LET kept == SelectSeq(Literals(ArgsOf(p).content, 0), LAMBDA l : ~IsBlank(l.value))
  IN [n \in 1..Len(kept) |->
        [classString |-> kept[n].value,
         classStartOffset |-> MatchCallAt(text, p, functionNames) + kept[n].start]]

\* C16: for every balanced call of a configured function the extractor emits, in
\* source order, exactly one result per string literal inside the parentheses,
\* with the literal's content as its value, empty and blank literals excepted.
C16_OneResultPerLiteral ==
  MatchDone => \A p \in CallSites :
                 ArgsOf(p) # NoContent => EmittedFor(p) = LiteralsFor(p)

\* The results emitted for the call sites that do not balance.
UnbalancedSites == {p \in CallSites : ArgsOf(p) = NoContent}

\* C18: a call site whose parentheses never balance yields no result, and every
\* balanced call site after it still yields all of its string literals.
C18_UnbalancedCallSkipped ==
  MatchDone => \A p \in UnbalancedSites :
                 /\ EmittedFor(p) = <<>>
                 /\ \A q \in CallSites :
                       (q > p /\ ArgsOf(q) # NoContent) => EmittedFor(q) = LiteralsFor(q)

IdentifierChars == {"f", "F", "x", "k", "a", "b"}

\* The identifier that ends just before offset `end` of the text.
RECURSIVE IdentifierBefore(_)
IdentifierBefore(end) ==
  IF end > 0 /\ CharAt(text, end - 1) \in IdentifierChars
  THEN Append(IdentifierBefore(end - 1), CharAt(text, end - 1))
  ELSE <<>>

\* The name of the function called with the '(' at offset `open`.
CalledName(open) ==
  LET RECURSIVE NameEnd(_)
      NameEnd(j) == IF j > 0 /\ CharAt(text, j - 1) \in RegexSpace THEN NameEnd(j - 1) ELSE j
  IN IdentifierBefore(NameEnd(open))

\* C19: every result comes from a call whose function name, taken as a whole
\* identifier and compared case-sensitively, is in the configured list; an
\* empty list gives no result.
C19_OnlyConfiguredNames ==
  MatchDone =>
    /\ \A n \in 1..Len(found.classFunctionMatches) :
          \E k \in 1..Len(functionNames) :
            \E open \in 0..(Len(text) - 1) :
              /\ CharAt(text, open) = "("
              /\ open < found.classFunctionMatches[n].classStartOffset
              /\ MatchCallAt(text, found.classFunctionMatches[n].startOffset, functionNames)
                   = open + 1
              /\ CalledName(open) = functionNames[k]
    /\ functionNames = <<>> => found.classFunctionMatches = <<>>

\* C20: the list findClassMatches returns is in strictly ascending order of
\* classStartOffset and holds no two spans with the same
\* (classStartOffset, length of the class text).
C20_AscendingDistinctSpans ==
  MatchDone => \A i, j \in 1..Len(found.matches) :
                 i < j =>
                   /\ found.matches[i].classStartOffset < found.matches[j].classStartOffset
                   /\ DedupKey(found.matches[i]) # DedupKey(found.matches[j])

\* The offsets a span covers in the document.
SpanRange(match) ==
  match.classStartOffset..(match.classStartOffset + Len(match.classString) - 1)

\* C21: no two spans findClassMatches returns for one document overlap: the
\* ranges [classStartOffset, classStartOffset + length) of any two of them are
\* disjoint.
C21_SpansDisjoint ==
  MatchDone => \A i, j \in 1..Len(found.matches) :
                 i # j => SpanRange(found.matches[i]) \cap SpanRange(found.matches[j]) = {}

\* The spans of the pattern rules as findMatchesForPattern returned them.
PatternSpans == AllPatternMatches(text, patterns, 1)

SpanHolds(match) ==
  /\ 0 <= match.classStartOffset
  /\ match.classStartOffset + Len(match.classString) <= Len(text)
  /\ Slice(text, match.classStartOffset, match.classStartOffset + Len(match.classString))
       = match.classString

ServiceOptions(preserveDuplicates, preserveWhitespace) ==
  [ignoreFirst |-> FALSE, ignoreLast |-> FALSE,
   removeDuplicates |-> ~preserveDuplicates,
   collapseWhitespace |-> [kind |-> IF preserveWhitespace THEN "false" ELSE "true"]]

\* An oracle that knows none of the classes.
NoRanks == <<>>

\* extension.ts 224-226: an edit is pushed for the span under some setting of
\* preserveDuplicates and preserveWhitespace.
Edited(match) ==
  \E preserveDuplicates, preserveWhitespace \in BOOLEAN :
    sortClasses(match.classString, NoRanks,
                ServiceOptions(preserveDuplicates, preserveWhitespace)).out
      # match.classString

\* The offset at which the designated capture group of the match at index
\* stands in the document.
CaptureStart(str, index, pattern) ==
  IF pattern.captureGroup = 0 THEN index ELSE index + Len(pattern.open)

\* The range of the span is the range of the designated capture group of a
\* match of one of the rules.
IsCaptureRange(match) ==
  \E k \in 1..Len(patterns) :
    LET spans == findMatchesForPattern(text, patterns[k])
    IN \E n \in 1..Len(spans) :
         /\ CaptureStart(text, spans[n].startOffset, patterns[k]) = match.classStartOffset
         /\ Len(spans[n].classString) = Len(match.classString)

\* The range of the span is the content between the quotes of a string literal
\* of a function call.
IsLiteralRange(match) ==
  /\ \E n \in 1..Len(found.classFunctionMatches) :
       SpanRange(found.classFunctionMatches[n]) = SpanRange(match)
  /\ CharAt(text, match.classStartOffset - 1) \in {DQ, SQ}
  /\ CharAt(text, match.classStartOffset + Len(match.classString))
       = CharAt(text, match.classStartOffset - 1)

\* C23: every edit replaces exactly the range of the designated capture group
\* of a rule match or of the content between the quotes of a literal of a
\* function call, so that nothing but class text is modified.
C23_EditsReplaceClassText ==
  MatchDone => \A n \in 1..Len(found.matches) :
                 Edited(found.matches[n]) =>
                   IsCaptureRange(found.matches[n]) \/ IsLiteralRange(found.matches[n])

\* The rules of the list that compile.
CompilingRules == SelectSeq(patterns, LAMBDA pattern : pattern.wellFormed)

\* C24: a rule whose regex does not compile is skipped: findClassMatches returns
\* what it returns for the list without that rule, the spans of the other
\* rules and of the function calls.
C24_InvalidRuleSkipped ==
  MatchDone => found = findClassMatches(text, CompilingRules, functionNames)

\* A list with an invalid rule in front of k="([^"]+)" was scanned over
\* f(k="k"): the span of the call and the span of the valid rule are both
\* returned.
C24_Witness ==
  /\ MatchDone
  /\ patterns = <<InvalidRule, AttributeRule(1)>>
  /\ text = <<"f", "(", "k", "=", DQ, "k", DQ, ")">>
  /\ Len(found.matches) = 2
  /\ found.matches[1] = found.classFunctionMatches[1]
  /\ found.matches[2] = PatternSpans[1]

\* The successive matches of the regex of the rule in str from offset `from`
\* on, each as <<index, end>>; the search goes on behind a match, and one
\* character further behind an empty one.
RECURSIVE RegexMatches(_, _, _)
RegexMatches(str, pattern, from) ==
  IF from > Len(str) \/ ExecPattern(str, from, pattern) = -1 THEN <<>>
  ELSE LET index == ExecPattern(str, from, pattern)
           end == PatternEnd(str, index, pattern)
       IN <<<<index, end>>>>
            \o RegexMatches(str, pattern, IF end = index THEN end + 1 ELSE end)

\* The designated group took part in the match, with something other than
\* whitespace in it.
HasClassText(str, match, pattern) ==
  LET classString == Capture(str, match[1], match[2], pattern)
  IN classString # <<>> /\ \E i \in 1..Len(classString) : classString[i] \notin RegexSpace

\* <<offset of the match, class text>> of the matches of the rules from the
\* k-th on that are not to be discarded, rule by rule.
RECURSIVE ExpectedSpans(_, _, _)
ExpectedSpans(str, patternList, k) ==
  IF k > Len(patternList) THEN <<>>
  ELSE LET pattern == patternList[k]
           kept == SelectSeq(RegexMatches(str, pattern, 0),
                             LAMBDA match : HasClassText(str, match, pattern))
       IN (IF pattern.wellFormed
           THEN [n \in 1..Len(kept) |->
                   <<kept[n][1], Capture(str, kept[n][1], kept[n][2], pattern)>>]
           ELSE <<>>)
            \o ExpectedSpans(str, patternList, k + 1)

EmittedSpans ==
  [n \in 1..Len(scanMatches) |-> <<scanMatches[n].startOffset, scanMatches[n].classString>>]

IsPrefix(s, t) == Len(s) <= Len(t) /\ s = SubSeq(t, 1, Len(s))

\* C25: a match whose designated group took no part, is empty, is
\* whitespace-only or is out of range gives no span, and the other matches of
\* the rule are scanned and emitted all the same: the spans pushed are, in
\* order, those of the matches that have class text, a turn that discards its
\* match leaves the scan behind that match, and all the spans get pushed.
C25_DiscardedOneByOne ==
  /\ [](IsPrefix(EmittedSpans, ExpectedSpans(text, patterns, 1)))
  /\ [][(ScanIteration /\ scanMatches' = scanMatches)
          => regexLastIndex' > regexLastIndex]_vars
  /\ <>(EmittedSpans = ExpectedSpans(text, patterns, 1))

\* C26: findClassMatches completes for every list of rules that compile: every
\* turn of the while loop of a rule advances lastIndex, so that a rule takes no
\* more turns than the text has characters, and the scan reaches its return.
C26_ScanCompletes == [](iterations <= Len(text)) /\ <>(matchPc = "done")

\* C27: when a rule and the function-call extractor both produce a span for
\* the same range, the span findClassMatches keeps for that range is the one of
\* the rule.
C27_PatternSpanWins ==
  MatchDone =>
    \A i \in 1..Len(PatternSpans) : \A j \in 1..Len(found.classFunctionMatches) :
      DedupKey(PatternSpans[i]) = DedupKey(found.classFunctionMatches[j]) =>
        \A n \in 1..Len(found.matches) :
          DedupKey(found.matches[n]) = DedupKey(PatternSpans[i]) =>
            \E m \in 1..Len(PatternSpans) : found.matches[n] = PatternSpans[m]

(***************************************************************************)
(* Further claims about sortClasses                                        *)
(***************************************************************************)
\* The positions in the input of the classes removeDuplicates takes out: the
\* later copies of a class of known rank.
RemovedTokens ==
  {i \in 1..Len(InTokens) :
     /\ RankOf(InTokens[i]) # Null
     /\ \E j \in 1..(i - 1) : InTokens[j] = InTokens[i]}

\* The runs between the classes of the input, less the run in front of each
\* removed class.
RunsLeft ==
  LET inner == WhitespaceRuns(classStr).inner
      kept == {i \in 1..Len(inner) : (i + 1) \notin RemovedTokens}
  IN [k \in 1..Cardinality(kept) |->
        inner[CHOOSE i \in kept : Cardinality({j \in kept : j < i}) = k - 1]]

\* C28: when duplicates are removed, the runs between the classes of the output
\* are those of the input less the run that stood in front of each removed
\* class, in order (single spaces in that number when collapsing); stated with
\* ignoreFirst and ignoreLast off, where every class takes part in the removal.
C28_RunBeforeRemovedTokenDropped ==
  (Sorted /\ opts.removeDuplicates /\ ~HoldsAside) =>
    WhitespaceRuns(sorted).inner =
      IF Collapsing THEN [k \in 1..Len(RunsLeft) |-> <<" ">>] ELSE RunsLeft

\* C29: sortClasses is idempotent: with the same oracle and options, what it
\* returns for its own result is that result.
C29_Idempotent ==
  Done => sortClasses(sorted, order, opts).out = sorted

(***************************************************************************)
(* A further claim about the service                                       *)
(***************************************************************************)
\* Nothing is running, queued or being built: whatever happens next is a new
\* call.
Quiescent ==
  /\ running = NoCaller /\ microtasks = <<>>
  /\ \A b \in Builds : buildState[b] # "pending"

\* C30: a failed build is not sticky: once the event loop has drained,
\* initPromise does not refer to a settled build, so that the next call that
\* needs a build starts one (types.ts 174) instead of awaiting the old promise.
C30_FailedBuildNotSticky == Quiescent => initPromise = 0

====
